---- MODULE Spec2Model ----
(***************************************************************************)
(* A model of nuxt-layers-utils: the useLayers() factory and the config    *)
(* generators of the instance it returns.                                  *)
(*                                                                         *)
(* Strings are sequences of atoms.  An atom stands for a run of characters *)
(* that the program never looks inside ("core", "layers", "#"), or for one *)
(* of the characters it does look at: the separator "/", the dot "." and   *)
(* the blank " ".  String concatenation is \o, the empty string is << >>.  *)
(* "layers/blog" is <<"layers", "/", "blog">> and ".." is <<".", ".">>.    *)
(*                                                                         *)
(* A JavaScript object is the sequence of its own enumerable entries       *)
(* [key, val] in own-property order, which for keys that are not array     *)
(* indices is creation order.  The layer keys and folder names of the      *)
(* model are names, never array indices such as "1", which JavaScript      *)
(* would enumerate before every other key.  Paths are POSIX paths.         *)
(*                                                                         *)
(* The repository holds useLayers() twice: src/index.ts, and a file with   *)
(* the same methods plus contentSources, obj, arr and the layers getter    *)
(* (src/unnamed/part_001).  They differ in only(); `build` says which of   *)
(* the two the program loaded.                                             *)
(***************************************************************************)
EXTENDS Integers, Sequences, FiniteSets, TLC

VARIABLES
    build,      \* which useLayers() the program loaded: "index_ts" or "part_001"
    instances,  \* the instances made so far: [baseDir, layers], root first
    madeBy,     \* for each instance, the only() call that made it (parent 0: the
                \* root) and the instance as that call returned it
    ret         \* the last call: [op, inst, args, out]

vars == <<build, instances, madeBy, ret>>

----------------------------------------------------------------------------
(* Sequences and strings *)

SLASH == "/"
DOT == "."
SPACE == " "

Range(s) == {s[i] : i \in 1..Len(s)}

Includes(s, x) == \E i \in 1..Len(s) : s[i] = x

RECURSIVE SplitOn(_, _, _)
\* s.split(sep) for a one-atom separator set: the pieces between separators,
\* empty pieces included; `cur` is the piece being read
SplitOn(s, seps, cur) ==
    IF s = << >> THEN <<cur>>
    ELSE IF Head(s) \in seps
         THEN <<cur>> \o SplitOn(Tail(s), seps, << >>)
         ELSE SplitOn(Tail(s), seps, Append(cur, Head(s)))

RECURSIVE JoinWith(_, _)
\* pieces.join(sep)
JoinWith(pieces, sep) ==
    IF pieces = << >> THEN << >>
    ELSE IF Len(pieces) = 1 THEN pieces[1]
    ELSE pieces[1] \o sep \o JoinWith(Tail(pieces), sep)

\* a string of one atom, and a path of two segments
S(atom) == <<atom>>
Path2(a, b) == <<a, SLASH, b>>

----------------------------------------------------------------------------
(* JavaScript objects: own-property order *)

Entry(k, v) == [key |-> k, val |-> v]

ObjKeys(o) == [i \in 1..Len(o) |-> o[i].key]

ObjValues(o) == [i \in 1..Len(o) |-> o[i].val]

ObjHas(o, k) == \E i \in 1..Len(o) : o[i].key = k

\* o[k] for a key the object has
ObjGet(o, k) == o[CHOOSE i \in 1..Len(o) : o[i].key = k].val

\* o[k] = v: a key the object has keeps its place, a new key goes last
ObjSet(o, k, v) ==
    IF ObjHas(o, k)
    THEN [i \in 1..Len(o) |-> IF o[i].key = k THEN [key |-> k, val |-> v] ELSE o[i]]
    ELSE Append(o, [key |-> k, val |-> v])

RECURSIVE ObjLiteral(_)
\* the object an object literal {k1: v1, k2: v2, ...} evaluates to
ObjLiteral(entries) ==
    IF entries = << >> THEN << >>
    ELSE LET e == entries[Len(entries)]
         IN  ObjSet(ObjLiteral(SubSeq(entries, 1, Len(entries) - 1)), e.key, e.val)

----------------------------------------------------------------------------
(* join() of pathe: POSIX path joining *)

DotDot == <<DOT, DOT>>

RECURSIVE normalizeString(_, _, _)
\* resolve "." and ".." over the segments of a path; `res` is the output so far
normalizeString(segs, allowAboveRoot, res) ==
    IF segs = << >> THEN res
    ELSE LET seg == Head(segs)
             rest == Tail(segs)
         IN  IF seg = << >> \/ seg = <<DOT>>
             THEN normalizeString(rest, allowAboveRoot, res)
             ELSE IF seg = DotDot
             THEN IF res # << >> /\ res[Len(res)] # DotDot
                  THEN normalizeString(rest, allowAboveRoot, SubSeq(res, 1, Len(res) - 1))
                  ELSE IF allowAboveRoot
                       THEN normalizeString(rest, allowAboveRoot, Append(res, DotDot))
                       ELSE normalizeString(rest, allowAboveRoot, res)
             ELSE normalizeString(rest, allowAboveRoot, Append(res, seg))

normalize(input) ==
    IF input = << >> THEN <<DOT>>
    ELSE LET isPathAbsolute == input[1] = SLASH
             trailingSeparator == input[Len(input)] = SLASH
             segs == normalizeString(SplitOn(input, {SLASH}, << >>), ~isPathAbsolute, << >>)
             body == JoinWith(segs, <<SLASH>>)
         IN  IF segs = << >>
             THEN IF isPathAbsolute THEN <<SLASH>>
                  ELSE IF trailingSeparator THEN <<DOT, SLASH>> ELSE <<DOT>>
             ELSE (IF isPathAbsolute THEN <<SLASH>> ELSE << >>)
                  \o body
                  \o (IF trailingSeparator THEN <<SLASH>> ELSE << >>)

RECURSIVE CollapseSlashes(_)
\* joined.replace(/\/\/+/g, "/")
CollapseSlashes(s) ==
    IF Len(s) < 2 THEN s
    ELSE IF s[1] = SLASH /\ s[2] = SLASH THEN CollapseSlashes(Tail(s))
    ELSE <<s[1]>> \o CollapseSlashes(Tail(s))

RECURSIVE Joined(_)
\* the non-empty arguments of join(), separated by "/"
Joined(parts) ==
    IF parts = << >> THEN << >>
    ELSE LET before == Joined(SubSeq(parts, 1, Len(parts) - 1))
             last == parts[Len(parts)]
         IN  IF last = << >> THEN before
             ELSE IF before = << >> THEN last
             ELSE before \o <<SLASH>> \o last

\* join(...parts)
join(parts) ==
    IF Joined(parts) = << >> THEN <<DOT>> ELSE normalize(CollapseSlashes(Joined(parts)))

----------------------------------------------------------------------------
(* Calls: a call returns a value or throws *)

Ok(v) == [threw |-> FALSE, value |-> v]

\* throw new Error(`Invalid layer "${key}"`)
Throw(key) == [threw |-> TRUE, message |-> <<"Invalid layer ", "\"">> \o key \o <<"\"">>]

\* an optional argument: << >> when omitted (undefined), <<v>> when given
Omitted == << >>
Given(v) == <<v>>
OrDefault(arg, default) == IF arg = Omitted THEN default ELSE arg[1]

AUTO_IMPORTS == << <<"components">>, <<"composables">>, <<"utils">> >>

\* the whitespace of trim() and of /\s+/: the blank, the tab and their like
TAB == "\t"
Whitespace == {SPACE, TAB}

RECURSIVE trimStart(_)
trimStart(s) == IF s # << >> /\ Head(s) \in Whitespace THEN trimStart(Tail(s)) ELSE s

RECURSIVE trimEnd(_)
trimEnd(s) ==
    IF s # << >> /\ s[Len(s)] \in Whitespace THEN trimEnd(SubSeq(s, 1, Len(s) - 1)) ELSE s

trim(s) == trimEnd(trimStart(s))

\* s.split(/\s+/): a run of whitespace is one separator; "" splits to [""]
splitWhitespace(s) ==
    IF s = << >> THEN << << >> >>
    ELSE LET pieces == SplitOn(s, Whitespace, << >>)
             \* an empty piece inside the string is the gap inside a run; the
             \* pieces before a leading run and after a trailing run stay
             inner(i) == 1 < i /\ i < Len(pieces)
             keep == {i \in 1..Len(pieces) : pieces[i] # << >> \/ ~inner(i)}
             RECURSIVE pick(_)
             pick(i) == IF i > Len(pieces) THEN << >>
                        ELSE (IF i \in keep THEN <<pieces[i]>> ELSE << >>) \o pick(i + 1)
         IN  pick(1)

\* getKeys() as it would be without trim()
getKeys_NoTrim(filter) ==
    IF filter.isArray THEN filter.keys ELSE splitWhitespace(filter.text)

\* getKeys() as it would be if it dropped the empty pieces: .filter(Boolean)
getKeys_DropsEmpty(filter) ==
    IF filter.isArray THEN filter.keys
    ELSE SelectSeq(splitWhitespace(trim(filter.text)), LAMBDA key : key # << >>)

\* a filter is [isArray |-> TRUE, keys |-> <<key, ...>>] or [isArray |-> FALSE, text |-> string]
getKeys(filter) ==
    IF filter.isArray THEN filter.keys ELSE splitWhitespace(trim(filter.text))

----------------------------------------------------------------------------
(* useLayers(baseDir, layers): the instance is the closure over both *)

useLayers(baseDir, layers) == [baseDir |-> baseDir, layers |-> layers]

assertLayerKey(layers, key) ==
    IF ~Includes(ObjKeys(layers), key) THEN Throw(key) ELSE Ok(Omitted)

\* rel (key, folder = '')
rel(self, key, folder) ==
    LET valid == assertLayerKey(self.layers, key)
    IN  IF valid.threw THEN valid
        ELSE Ok(join(<<ObjGet(self.layers, key), OrDefault(folder, << >>)>>))

\* abs() as it would be if the folder were joined to the base directory
\* before the layer's path
abs_FolderBeforeLayer(self, key, folder) ==
    LET valid == assertLayerKey(self.layers, key)
    IN  IF valid.threw THEN valid
        ELSE Ok(join(<<self.baseDir, OrDefault(folder, << >>), ObjGet(self.layers, key)>>))

\* abs (key, folder = '')
abs(self, key, folder) ==
    LET valid == assertLayerKey(self.layers, key)
    IN  IF valid.threw THEN valid
        ELSE Ok(join(<<self.baseDir, ObjGet(self.layers, key), OrDefault(folder, << >>)>>))

\* extends() as it would be if it returned the paths in normal form
extends_Normalized(self) ==
    Ok([i \in 1..Len(self.layers) |-> join(<<self.layers[i].val>>)])

\* extends ()
extends(self) == Ok(ObjValues(self.layers))

RECURSIVE dirReduce(_, _, _, _)
\* folders.reduce((output, folder) => { output[folder] = this.rel(key, folder) ... }, {})
dirReduce(self, key, folders, output) ==
    IF folders = << >> THEN Ok(output)
    ELSE LET r == rel(self, key, Given(Head(folders)))
         IN  IF r.threw THEN r
             ELSE dirReduce(self, key, Tail(folders), ObjSet(output, Head(folders), r.value))

\* dir() as it would be without its own assertLayerKey(key), leaving the
\* check to the rel() of each folder
dir_NoAssert(self, key, folders) == dirReduce(self, key, folders, << >>)

\* dir (key, folders)
dir(self, key, folders) ==
    LET valid == assertLayerKey(self.layers, key)
    IN  IF valid.threw THEN valid ELSE dirReduce(self, key, folders, << >>)

\* dirPath() as it would be if it dropped the folder: this.rel(key)
dirPath_FolderDropped(self, key, folder) ==
    LET valid == assertLayerKey(self.layers, key)
    IN  IF valid.threw THEN valid ELSE rel(self, key, Omitted)

\* dirPath (key, folder?)
dirPath(self, key, folder) ==
    LET valid == assertLayerKey(self.layers, key)
    IN  IF valid.threw THEN valid ELSE rel(self, key, folder)

\* the folders argument of alias(): undefined, true or an array of folder names
FoldersUndefined == [truthy |-> FALSE, isArray |-> FALSE, items |-> << >>]
FoldersTrue == [truthy |-> TRUE, isArray |-> FALSE, items |-> << >>]
FoldersArray(items) == [truthy |-> TRUE, isArray |-> TRUE, items |-> items]

RECURSIVE aliasFolders(_, _, _, _, _)
\* for (const folder of ...) output[prefix + folder] = this.abs(key, folder)
aliasFolders(self, prefix, key, folders, output) ==
    IF folders = << >> THEN Ok(output)
    ELSE LET a == abs(self, key, Given(Head(folders)))
         IN  IF a.threw THEN a
             ELSE aliasFolders(self, prefix, key, Tail(folders),
                               ObjSet(output, prefix \o Head(folders), a.value))

RECURSIVE aliasLayers_Rel(_, _, _, _)
\* the loop of alias() as it would be if it took this.rel(key)
aliasLayers_Rel(self, prefix, keys, output) ==
    IF keys = << >> THEN Ok(output)
    ELSE LET a == rel(self, Head(keys), Omitted)
         IN  IF a.threw THEN a
             ELSE aliasLayers_Rel(self, prefix, Tail(keys),
                                  ObjSet(output, prefix \o Head(keys), a.value))

RECURSIVE aliasLayers(_, _, _, _)
\* for (const key of Object.keys(layers)) output[prefix + key] = this.abs(key)
aliasLayers(self, prefix, keys, output) ==
    IF keys = << >> THEN Ok(output)
    ELSE LET a == abs(self, Head(keys), Omitted)
         IN  IF a.threw THEN a
             ELSE aliasLayers(self, prefix, Tail(keys),
                              ObjSet(output, prefix \o Head(keys), a.value))

\* alias() as it would be if it took the last key, Object.keys(layers).pop()
alias_LastLayer(self, prefixArg, folders) ==
    LET prefix == OrDefault(prefixArg, <<"#">>)
        keys == ObjKeys(self.layers)
    IN  IF folders.truthy
        THEN IF keys # << >> /\ keys[Len(keys)] # << >>
             THEN aliasFolders(self, prefix, keys[Len(keys)],
                               IF folders.isArray THEN folders.items ELSE AUTO_IMPORTS, << >>)
             ELSE Ok(<< >>)
        ELSE aliasLayers(self, prefix, keys, << >>)

\* alias() as it would be without `if (key)`: the undefined that shift() gives
\* for a mapping of no layers goes to this.abs()
alias_NoKeyCheck(self, prefixArg, folders) ==
    LET prefix == OrDefault(prefixArg, <<"#">>)
        keys == ObjKeys(self.layers)
    IN  IF folders.truthy
        THEN aliasFolders(self, prefix, IF keys = << >> THEN <<"undefined">> ELSE Head(keys),
                          IF folders.isArray THEN folders.items ELSE AUTO_IMPORTS, << >>)
        ELSE aliasLayers(self, prefix, keys, << >>)

\* alias (prefix = '#', folders?)
alias(self, prefixArg, folders) ==
    LET prefix == OrDefault(prefixArg, <<"#">>)
        keys == ObjKeys(self.layers)
    IN  IF folders.truthy
        THEN \* const key = Object.keys(layers).shift(); if (key) ...
             IF keys # << >> /\ Head(keys) # << >>
             THEN aliasFolders(self, prefix, Head(keys),
                               IF folders.isArray THEN folders.items ELSE AUTO_IMPORTS, << >>)
             ELSE Ok(<< >>)
        ELSE aliasLayers(self, prefix, keys, << >>)

RECURSIVE firstInvalid_Last(_, _)
\* the check of the keys as it would be if it ran from the last key to the first
firstInvalid_Last(layers, keys) ==
    IF keys = << >> THEN Ok(Omitted)
    ELSE LET valid == assertLayerKey(layers, keys[Len(keys)])
         IN  IF valid.threw THEN valid
             ELSE firstInvalid_Last(layers, SubSeq(keys, 1, Len(keys) - 1))

RECURSIVE firstInvalid(_, _)
\* keys.forEach(assertLayerKey): the first key that throws, if any
firstInvalid(layers, keys) ==
    IF keys = << >> THEN Ok(Omitted)
    ELSE LET valid == assertLayerKey(layers, Head(keys))
         IN  IF valid.threw THEN valid ELSE firstInvalid(layers, Tail(keys))

\* the filtered mapping as it would be if every layer were kept
pickLayers_All(layers, keys, output) == layers

\* the filtered mapping as it would be if each key were given the path of
\* the layer at its place in the filter: output[key] = Object.values(layers)[n]
pickLayers_PathByPlace(layers, keys, output) ==
    [n \in 1..Len(keys) |-> Entry(keys[n], layers[((n - 1) % Len(layers)) + 1].val)]

RECURSIVE pickLayers(_, _, _)
\* keys.reduce((output, key) => { output[key] = layers[key] ... }, {})
pickLayers(layers, keys, output) ==
    IF keys = << >> THEN output
    ELSE pickLayers(layers, Tail(keys), ObjSet(output, Head(keys), ObjGet(layers, Head(keys))))

\* only (filter), as useLayers() of src/unnamed/part_001 has it
only_part_001(self, filter) ==
    LET keys == getKeys(filter)
        valid == firstInvalid(self.layers, keys)
    IN  IF valid.threw THEN valid
        ELSE Ok(useLayers(self.baseDir, pickLayers(self.layers, keys, << >>)))

\* only() of src/index.ts as it would be if it ran over the keys of the
\* mapping from the last to the first: Object.keys(layers).reverse().filter(...)
only_index_ts_Reversed(self, filter) ==
    LET keys == getKeys(filter)
        valid == firstInvalid(self.layers, keys)
        all == ObjKeys(self.layers)
        reversed == [n \in 1..Len(all) |-> all[Len(all) + 1 - n]]
        kept == SelectSeq(reversed, LAMBDA key : Includes(keys, key))
    IN  IF valid.threw THEN valid
        ELSE Ok(useLayers(self.baseDir, pickLayers(self.layers, kept, << >>)))

\* only (filter), as useLayers() of src/index.ts has it
only_index_ts(self, filter) ==
    LET keys == getKeys(filter)
        valid == firstInvalid(self.layers, keys)
        kept == SelectSeq(ObjKeys(self.layers), LAMBDA key : Includes(keys, key))
    IN  IF valid.threw THEN valid
        ELSE Ok(useLayers(self.baseDir, pickLayers(self.layers, kept, << >>)))

Builds == {"index_ts", "part_001"}

only(b, self, filter) ==
    IF b = "index_ts" THEN only_index_ts(self, filter) ELSE only_part_001(self, filter)

----------------------------------------------------------------------------
(* obj(), arr() and the generators built on them (src/unnamed/part_001) *)

\* a callback is a closure: the function it is and the variables it captured
Closure(fn, env) == [fn |-> fn, env |-> env]

\* `${value}` of a string, and of the undefined a missing key gives
Undefined == <<"undefined">>
Lookup(o, k) == IF ObjHas(o, k) THEN ObjGet(o, k) ELSE Undefined

\* the prefix argument of contentSources(): a string, a boolean or an object
PrefixText(text) == [kind |-> "string", text |-> text, flag |-> FALSE, map |-> << >>]
PrefixFlag(flag) == [kind |-> "boolean", text |-> << >>, flag |-> flag, map |-> << >>]
PrefixMap(map) == [kind |-> "object", text |-> << >>, flag |-> FALSE, map |-> map]

Auto == PrefixText(<<"auto">>)

\* the ternary as it would be if 'auto' spared the layer at index 1
prefixed_AutoSparesSecond(prefix, key, index) ==
    IF (prefix = Auto /\ index = 1) \/ prefix = PrefixFlag(FALSE)
    THEN << >>
    ELSE IF prefix.kind = "object"
         THEN << Entry(S("prefix"), <<SLASH>> \o Lookup(prefix.map, key)) >>
         ELSE << Entry(S("prefix"), <<SLASH>> \o key) >>

\* the ternary as it would be if false, like 'auto', spared the first layer only
prefixed_FalseSparesFirst(prefix, key, index) ==
    IF (prefix \in {Auto, PrefixFlag(FALSE)}) /\ index = 0
    THEN << >>
    ELSE IF prefix.kind = "object"
         THEN << Entry(S("prefix"), <<SLASH>> \o Lookup(prefix.map, key)) >>
         ELSE << Entry(S("prefix"), <<SLASH>> \o key) >>

\* the ternary as it would be if an object were not looked into
prefixed_MapIgnored(prefix, key, index) ==
    IF (prefix = Auto /\ index = 0) \/ prefix = PrefixFlag(FALSE)
    THEN << >>
    ELSE << Entry(S("prefix"), <<SLASH>> \o key) >>

\* the ternary as it would be if only 'auto' and objects gave a prefix at index 0
prefixed_FirstSpared(prefix, key, index) ==
    IF (prefix.kind # "object" /\ index = 0) \/ prefix = PrefixFlag(FALSE)
    THEN << >>
    ELSE IF prefix.kind = "object"
         THEN << Entry(S("prefix"), <<SLASH>> \o Lookup(prefix.map, key)) >>
         ELSE << Entry(S("prefix"), <<SLASH>> \o key) >>

\* (prefix === 'auto' && index === 0) || prefix === false ? {}
\*   : prefix && typeof prefix === 'object' ? { prefix: `/${prefix[key]}` }
\*   : { prefix: `/${key}` }
\* the entries of the object; an object is truthy
prefixed(prefix, key, index) ==
    IF (prefix = Auto /\ index = 0) \/ prefix = PrefixFlag(FALSE)
    THEN << >>
    ELSE IF prefix.kind = "object"
         THEN << Entry(S("prefix"), <<SLASH>> \o Lookup(prefix.map, key)) >>
         ELSE << Entry(S("prefix"), <<SLASH>> \o key) >>

\* the source as it would be if its base were taken from the relative path
contentSource_RelBase(prefix, key, relPath, absPath, index) ==
    ObjLiteral(prefixed(prefix, key, index)
               \o << Entry(S("base"), join(<<relPath, S("content")>>)),
                     Entry(S("driver"), S("fs")) >>)

\* the callback of contentSources(): { ...prefixed, base: join(abs, 'content'), driver: 'fs' }
contentSource(prefix, key, relPath, absPath, index) ==
    ObjLiteral(prefixed(prefix, key, index)
               \o << Entry(S("base"), join(<<absPath, S("content")>>)),
                     Entry(S("driver"), S("fs")) >>)

\* the callback of importsDirs(): folders.map(folder => join(rel, folder))
importsDirsOf(folders, relPath) ==
    [j \in 1..Len(folders) |-> join(<<relPath, folders[j]>>)]

\* the callback of components(): `~/${rel}/components`, alone or with the options
componentOf(options, relPath) ==
    LET path == <<"~", SLASH>> \o relPath \o <<SLASH, "components">>
        hasOptions == Len(ObjValues(options)) > 0
    IN  IF hasOptions
        THEN [isObject |-> TRUE, text |-> << >>,
              entries |-> ObjLiteral(<<Entry(S("path"), path)>> \o options)]
        ELSE [isObject |-> FALSE, text |-> path, entries |-> << >>]

\* callback(key, rel, abs, index): what the closure returns
invoke(callback, key, relPath, absPath, index) ==
    CASE callback.fn = "contentSources" -> contentSource(callback.env, key, relPath, absPath, index)
      [] callback.fn = "importsDirs" -> importsDirsOf(callback.env, relPath)
      [] callback.fn = "components" -> componentOf(callback.env, relPath)
      [] callback.fn = "record" -> [key |-> key, rel |-> relPath, abs |-> absPath, index |-> index]
      [] callback.fn = "constant" -> callback.env

\* the arguments of one invocation of a callback
Invocation(key, relPath, absPath, index) ==
    [key |-> key, rel |-> relPath, abs |-> absPath, index |-> index]

\* a call that ran a callback: its value and the invocations it made, in order
OkCalls(v, calls) == [threw |-> FALSE, value |-> v, calls |-> calls]

\* obj() as it would be if index++ were ++index
obj_IndexFromOne(self, callback) ==
    LET keys == ObjKeys(self.layers)
        loop[n \in 0..Len(keys)] ==
            IF n = 0 THEN [output |-> << >>, calls |-> << >>]
            ELSE LET key == keys[n]
                     relPath == ObjGet(self.layers, key)
                     absPath == abs(self, key, Omitted).value
                 IN  [output |-> ObjSet(loop[n - 1].output, key,
                                        invoke(callback, key, relPath, absPath, n)),
                      calls |-> Append(loop[n - 1].calls,
                                       Invocation(key, relPath, absPath, n))]
    IN  OkCalls(loop[Len(keys)].output, loop[Len(keys)].calls)

\* obj (callback): for (const key of Object.keys(layers))
\*   output[key] = callback(key, layers[key], this.abs(key), index++)
obj(self, callback) ==
    LET keys == ObjKeys(self.layers)
        loop[n \in 0..Len(keys)] ==
            IF n = 0 THEN [output |-> << >>, calls |-> << >>]
            ELSE LET key == keys[n]
                     relPath == ObjGet(self.layers, key)
                     absPath == abs(self, key, Omitted).value
                 IN  [output |-> ObjSet(loop[n - 1].output, key,
                                        invoke(callback, key, relPath, absPath, n - 1)),
                      calls |-> Append(loop[n - 1].calls,
                                       Invocation(key, relPath, absPath, n - 1))]
    IN  OkCalls(loop[Len(keys)].output, loop[Len(keys)].calls)

\* arr (callback): Object.entries(layers).map(([key, rel], index) =>
\*   callback(key, rel, this.abs(key), index))
arr(self, callback) ==
    LET entries == self.layers
        args(n) == Invocation(entries[n].key, entries[n].val,
                              abs(self, entries[n].key, Omitted).value, n - 1)
    IN  OkCalls([n \in 1..Len(entries) |->
                    invoke(callback, args(n).key, args(n).rel, args(n).abs, args(n).index)],
                [n \in 1..Len(entries) |-> args(n)])

\* contentSources (prefix = 'auto')
contentSources(self, prefixArg) ==
    Ok(obj(self, Closure("contentSources", OrDefault(prefixArg, Auto))).value)

RECURSIVE flat(_)
\* array.flat(): the elements of the inner arrays, one level up
flat(arrays) == IF arrays = << >> THEN << >> ELSE Head(arrays) \o flat(Tail(arrays))

\* importsDirs() as it would be if it ran over the folders first
importsDirs_FolderMajor(self, foldersArg) ==
    LET folders == OrDefault(foldersArg, AUTO_IMPORTS)
    IN  Ok(flat([j \in 1..Len(folders) |->
                    [n \in 1..Len(self.layers) |->
                        join(<<self.layers[n].val, folders[j]>>)]]))

\* importsDirs (folders = AUTO_IMPORTS), as useLayers() of src/unnamed/part_001 has it
importsDirs_part_001(self, foldersArg) ==
    Ok(flat(arr(self, Closure("importsDirs", OrDefault(foldersArg, AUTO_IMPORTS))).value))

\* importsDirs (folders = AUTO_IMPORTS), as useLayers() of src/index.ts has it:
\* Object.values(layers).map(dir => folders.map(folder => join(dir, folder))).flat()
importsDirs_index_ts(self, foldersArg) ==
    LET folders == OrDefault(foldersArg, AUTO_IMPORTS)
        dirs == ObjValues(self.layers)
    IN  Ok(flat([n \in 1..Len(dirs) |-> importsDirsOf(folders, dirs[n])]))

importsDirs(b, self, foldersArg) ==
    IF b = "index_ts" THEN importsDirs_index_ts(self, foldersArg)
    ELSE importsDirs_part_001(self, foldersArg)

\* components() as it would be if the path were built on this.rel(key)
components_Normalized(b, self, optionsArg) ==
    Ok([n \in 1..Len(self.layers) |->
           componentOf(OrDefault(optionsArg, << >>),
                       rel(self, self.layers[n].key, Omitted).value)])

\* components (options = {}), as useLayers() of src/unnamed/part_001 has it
components_part_001(self, optionsArg) ==
    Ok(arr(self, Closure("components", OrDefault(optionsArg, << >>))).value)

\* components (options = {}), as useLayers() of src/index.ts has it:
\* Object.values(layers).map(dir => ...)
components_index_ts(self, optionsArg) ==
    LET dirs == ObjValues(self.layers)
    IN  Ok([n \in 1..Len(dirs) |-> componentOf(OrDefault(optionsArg, << >>), dirs[n])])

components(b, self, optionsArg) ==
    IF b = "index_ts" THEN components_index_ts(self, optionsArg)
    ELSE components_part_001(self, optionsArg)

\* viteResolveAlias() as it would be if it left out the aliases of the
\* instance's own layers
viteResolveAlias_OwnLayersOut(self, aliases) ==
    LET others == SelectSeq(aliases, LAMBDA e :
                      \A n \in 1..Len(self.layers) :
                          e.val # abs(self, self.layers[n].key, Omitted).value)
    IN  Ok([n \in 1..Len(others) |->
               [find |-> others[n].key, replacement |-> others[n].val]])

\* viteResolveAlias (aliases): Object.entries(aliases).map(([find, replacement]) => ...)
viteResolveAlias(self, aliases) ==
    Ok([n \in 1..Len(aliases) |-> [find |-> aliases[n].key, replacement |-> aliases[n].val]])

\* the getter as it would be if it returned the paths in normal form
get_layers_Normalized(self) ==
    Ok([n \in 1..Len(self.layers) |->
           Entry(self.layers[n].key, join(<<self.layers[n].val>>))])

\* get layers (): the mapping the instance closes over
get_layers(self) == Ok(self.layers)

----------------------------------------------------------------------------
(* logConfig(config): the helper that dumps a config to the console *)

\* a value as logConfig() meets it: what it holds, and what its own
\* [util.inspect.custom] method, if it has one, does when inspect() calls it
Value(holds, custom) == [holds |-> holds, custom |-> custom]

\* a value of strings, arrays and plain objects, as the instance's methods return
Plain(holds) == Value(holds, "none")

\* throw new Error(message), by code that is not the instance's
Raise(message) == [threw |-> TRUE, message |-> message]

\* inspect(config, { depth: 20, colors: true }) of node:util: the text, or
\* the exception the value's own inspect method throws
inspect(config) ==
    IF config.custom = "throws" THEN Raise(<<"inspect failed">>)
    ELSE Ok([rendering |-> config.holds])

\* logConfig() as it would be if it returned what console.log returns
logConfig_ReturnsLog(config) ==
    LET text == inspect(config)
    IN  IF text.threw THEN text
        ELSE [threw |-> FALSE, value |-> Plain(Undefined), printed |-> <<text.value>>]

\* logConfig (config): console.log(inspect(config, ...)); return config
\* `printed` is what the call wrote to the console
logConfig(config) ==
    LET text == inspect(config)
    IN  IF text.threw THEN text
        ELSE [threw |-> FALSE, value |-> config, printed |-> <<text.value>>]

----------------------------------------------------------------------------
(* The inputs the calls are made with *)

MaxInstances == 3

\* useLayers(baseDir, { ... }): the arguments of the root instance.  The keys
\* are non-empty names and the paths non-empty relative paths, in normal form
\* or not.
Projects ==
    { [baseDir |-> <<SLASH, "projects", SLASH, "project">>,
       layers |-> << Entry(S("core"), S("core")),
                     Entry(S("blog"), Path2("layers", "blog")),
                     Entry(S("site"), Path2("layers", "site")) >>],
      [baseDir |-> <<SLASH, "app", SLASH>>,
       layers |-> << Entry(S("site"), <<DOT, SLASH, "shared", SLASH, SLASH, "x", SLASH>>),
                     Entry(S("blog"), <<DOT, SLASH, "shared", SLASH, SLASH, "x", SLASH>>) >>],
      [baseDir |-> <<SLASH, "app", SLASH>>, layers |-> << >>] }

Keys == {S("core"), S("blog"), S("site"), S("invalid"), << >>}

Folders ==
    { Omitted,
      Given(S("assets")),
      Given(<<DOT, DOT, SLASH, "assets", SLASH>>),
      Given(<<SLASH, DOT, SLASH, "assets">>) }

FolderLists ==
    { << >>,
      << S("utils") >>,
      << S("pages"), <<DOT, DOT, SLASH, "assets", SLASH>>, S("pages") >> }

Prefixes == {Omitted, Given(<<"~", SLASH>>)}

ArrayFilter(keys) == [isArray |-> TRUE, keys |-> keys, text |-> << >>]
TextFilter(text) == [isArray |-> FALSE, keys |-> << >>, text |-> text]

Filters ==
    { ArrayFilter(<< S("site"), S("blog") >>),
      ArrayFilter(<< S("blog"), S("site") >>),
      ArrayFilter(<< S("site"), S("site"), S("core") >>),
      ArrayFilter(<< >>),
      ArrayFilter(<< S("core"), S("invalid"), << >> >>),
      TextFilter(<<SPACE, "core", SPACE, SPACE, "site", SPACE>>),
      TextFilter(<<"blog", SPACE, "missing", SPACE, "invalid">>),
      TextFilter(<<SPACE>>) }

\* contentSources(prefix): omitted, 'auto', false, true, another string, the
\* empty string, and an object that names two of the three layers
PrefixArgs ==
    { Omitted,
      Given(Auto),
      Given(PrefixFlag(FALSE)),
      Given(PrefixFlag(TRUE)),
      Given(PrefixText(S("docs"))),
      Given(PrefixText(<< >>)),
      Given(PrefixMap(<< Entry(S("site"), S("the-site")),
                         Entry(S("blog"), S("the-blog")) >>)) }

ImportFolders ==
    { Omitted,
      Given(<< >>),
      Given(<< S("utils"), <<DOT, DOT, SLASH, "assets", SLASH>> >>) }

\* components(options): the values of the options are atoms; the last mapping
\* has an entry named as the entry components() makes
ComponentOptions ==
    { Omitted,
      Given(<< >>),
      Given(<< Entry(S("pathPrefix"), S("false")), Entry(S("prefix"), S("Custom")) >>),
      Given(<< Entry(S("global"), S("true")) >>),
      Given(<< Entry(S("path"), S("elsewhere")) >>) }

\* viteResolveAlias(aliases): mappings that name paths of the layers and others
AliasMaps ==
    { << >>,
      << Entry(<<"#", "core">>, <<SLASH, "abs", SLASH, "core">>) >>,
      << Entry(<<"#", "site">>, <<SLASH, "projects", SLASH, "project", SLASH, "layers", SLASH, "site">>),
         Entry(<<"#", "core">>, <<SLASH, "projects", SLASH, "project", SLASH, "core">>),
         Entry(<<"~", SLASH, "x">>, <<SLASH, "app", SLASH, "shared", SLASH, "x", SLASH>>) >> }

\* the callbacks obj() and arr() are called with: one that returns what it was
\* passed, one that returns the same value whatever it was passed
Callbacks == {Closure("record", Omitted), Closure("constant", S("x"))}

----------------------------------------------------------------------------
(* The program: a root instance, then calls on the instances made so far *)

Call(op, i, args, out) == [op |-> op, inst |-> i, args |-> args, out |-> out]

\* between two calls: the caller has taken the last result
Idle == Call("idle", 0, << >>, Ok(Omitted))

Init ==
    /\ build \in Builds
    /\ \E p \in Projects :
         /\ instances = << useLayers(p.baseDir, ObjLiteral(p.layers)) >>
         /\ ret = Call("useLayers", 1, <<p.baseDir, p.layers>>,
                       Ok(useLayers(p.baseDir, ObjLiteral(p.layers))))
         /\ madeBy = << [parent |-> 0, keys |-> << >>,
                         made |-> useLayers(p.baseDir, ObjLiteral(p.layers))] >>

\* only() as it would be if it filtered the mapping of its own instance in
\* place (delete layers[key]) before handing it to the new instance
CallOnly_InPlace(i, filter) ==
    LET out == only(build, instances[i], filter)
    IN  /\ ret = Idle
        /\ ret' = Call("only", i, <<filter>>, out)
        /\ IF out.threw
           THEN UNCHANGED <<instances, madeBy>>
           ELSE /\ Len(instances) < MaxInstances
                /\ instances' = Append([instances EXCEPT ![i] = out.value], out.value)
                /\ madeBy' = Append(madeBy, [parent |-> i, keys |-> getKeys(filter),
                                              made |-> out.value])
        /\ UNCHANGED build

\* instances[i].only(filter): a new instance when it returns
CallOnly(i, filter) ==
    LET out == only(build, instances[i], filter)
    IN  /\ ret = Idle
        /\ ret' = Call("only", i, <<filter>>, out)
        /\ IF out.threw
           THEN UNCHANGED <<instances, madeBy>>
           ELSE /\ Len(instances) < MaxInstances
                /\ instances' = Append(instances, out.value)
                /\ madeBy' = Append(madeBy, [parent |-> i, keys |-> getKeys(filter),
                                              made |-> out.value])
        /\ UNCHANGED build

CallExtends(i) ==
    /\ ret = Idle
    /\ ret' = Call("extends", i, << >>, extends(instances[i]))
    /\ UNCHANGED <<build, instances, madeBy>>

CallRel(i, key, folder) ==
    /\ ret = Idle
    /\ ret' = Call("rel", i, <<key, folder>>, rel(instances[i], key, folder))
    /\ UNCHANGED <<build, instances, madeBy>>

CallAbs(i, key, folder) ==
    /\ ret = Idle
    /\ ret' = Call("abs", i, <<key, folder>>, abs(instances[i], key, folder))
    /\ UNCHANGED <<build, instances, madeBy>>

CallDir(i, key, folders) ==
    /\ ret = Idle
    /\ ret' = Call("dir", i, <<key, folders>>, dir(instances[i], key, folders))
    /\ UNCHANGED <<build, instances, madeBy>>

CallDirPath(i, key, folder) ==
    /\ ret = Idle
    /\ ret' = Call("dirPath", i, <<key, folder>>, dirPath(instances[i], key, folder))
    /\ UNCHANGED <<build, instances, madeBy>>

\* alias() as it would be if it took the first key off the mapping itself
\* rather than off the array of its keys
CallAlias_ShiftsLayers(i, prefix, folders) ==
    /\ ret = Idle
    /\ ret' = Call("alias", i, <<prefix, folders>>, alias(instances[i], prefix, folders))
    /\ instances' = IF folders.truthy /\ instances[i].layers # << >>
                    THEN [instances EXCEPT ![i].layers = Tail(instances[i].layers)]
                    ELSE instances
    /\ UNCHANGED <<build, madeBy>>

CallAlias(i, prefix, folders) ==
    /\ ret = Idle
    /\ ret' = Call("alias", i, <<prefix, folders>>, alias(instances[i], prefix, folders))
    /\ UNCHANGED <<build, instances, madeBy>>

\* the caller takes the result and goes on to its next call
Resume ==
    /\ ret # Idle
    /\ ret' = Idle
    /\ UNCHANGED <<build, instances, madeBy>>

FoldersArgs == {FoldersUndefined, FoldersTrue} \cup {FoldersArray(fs) : fs \in FolderLists}

Next ==
    \/ Resume
    \/ \E i \in 1..Len(instances) :
        \/ \E filter \in Filters : CallOnly(i, filter)
        \/ CallExtends(i)
        \/ \E key \in Keys, folder \in Folders : CallRel(i, key, folder)
        \/ \E key \in Keys, folder \in Folders : CallAbs(i, key, folder)
        \/ \E key \in Keys, folders \in FolderLists : CallDir(i, key, folders)
        \/ \E key \in Keys, folder \in Folders : CallDirPath(i, key, folder)
        \/ \E prefix \in Prefixes, folders \in FoldersArgs : CallAlias(i, prefix, folders)

Spec == Init /\ [][Next]_vars

----------------------------------------------------------------------------
(* The generators: calls of the methods built on obj() and arr() *)

\* the methods src/index.ts lacks: a program that calls them loaded part_001
HasObjArr == build = "part_001"

CallContentSources(i, prefix) ==
    /\ ret = Idle
    /\ HasObjArr
    /\ ret' = Call("contentSources", i, <<prefix>>, contentSources(instances[i], prefix))
    /\ UNCHANGED <<build, instances, madeBy>>

CallImportsDirs(i, folders) ==
    /\ ret = Idle
    /\ ret' = Call("importsDirs", i, <<folders>>, importsDirs(build, instances[i], folders))
    /\ UNCHANGED <<build, instances, madeBy>>

CallComponents(i, options) ==
    /\ ret = Idle
    /\ ret' = Call("components", i, <<options>>, components(build, instances[i], options))
    /\ UNCHANGED <<build, instances, madeBy>>

CallViteResolveAlias(i, aliases) ==
    /\ ret = Idle
    /\ ret' = Call("viteResolveAlias", i, <<aliases>>, viteResolveAlias(instances[i], aliases))
    /\ UNCHANGED <<build, instances, madeBy>>

CallObj(i, callback) ==
    /\ ret = Idle
    /\ HasObjArr
    /\ ret' = Call("obj", i, <<callback>>, obj(instances[i], callback))
    /\ UNCHANGED <<build, instances, madeBy>>

CallArr(i, callback) ==
    /\ ret = Idle
    /\ HasObjArr
    /\ ret' = Call("arr", i, <<callback>>, arr(instances[i], callback))
    /\ UNCHANGED <<build, instances, madeBy>>

NextGenerators ==
    \/ Resume
    \/ \E i \in 1..Len(instances) :
        \/ \E filter \in Filters : CallOnly(i, filter)
        \/ \E prefix \in PrefixArgs : CallContentSources(i, prefix)
        \/ \E folders \in ImportFolders : CallImportsDirs(i, folders)
        \/ \E options \in ComponentOptions : CallComponents(i, options)
        \/ \E aliases \in AliasMaps : CallViteResolveAlias(i, aliases)
        \/ \E callback \in Callbacks : CallObj(i, callback)
        \/ \E callback \in Callbacks : CallArr(i, callback)

SpecGenerators == Init /\ [][NextGenerators]_vars

----------------------------------------------------------------------------
(* The callers: every method of an instance, and logConfig() around them *)

CallLayers(i) ==
    /\ ret = Idle
    /\ HasObjArr
    /\ ret' = Call("layers", i, << >>, get_layers(instances[i]))
    /\ UNCHANGED <<build, instances, madeBy>>

\* the configs a caller hands to logConfig(): a plain one, one that holds an
\* object with an inspect method of its own, and one whose inspect method throws
UserConfigs ==
    { Plain(<< Entry(S("ssr"), S("false")) >>),
      Value(<< Entry(S("modules"), S("module")) >>, "renders"),
      Value(<< Entry(S("modules"), S("module")) >>, "throws") }

\* logConfig(config), called on a config of the caller's own
CallLogConfig(config) ==
    /\ ret = Idle
    /\ ret' = Call("logConfig", 0, <<config>>, logConfig(config))
    /\ UNCHANGED <<build, instances, madeBy>>

\* logConfig(expression): the call that returned last is the expression
LogLastResult ==
    /\ ret.op \notin {"idle", "logConfig"}
    /\ ~ret.out.threw
    /\ ret' = Call("logConfig", 0, <<Plain(ret.out.value)>>, logConfig(Plain(ret.out.value)))
    /\ UNCHANGED <<build, instances, madeBy>>

\* the filters of the callers: no key, two keys, an unknown key, a string
CallerFilters ==
    { ArrayFilter(<< >>),
      ArrayFilter(<< S("site"), S("blog") >>),
      TextFilter(<<"blog", SPACE, "missing", SPACE, "invalid">>),
      TextFilter(<<SPACE, "core", TAB, SPACE, "site", SPACE>>) }

NextCallers ==
    \/ Resume
    \/ LogLastResult
    \/ \E config \in UserConfigs : CallLogConfig(config)
    \/ \E i \in 1..Len(instances) :
        \/ \E filter \in CallerFilters : CallOnly(i, filter)
        \/ CallLayers(i)
        \/ CallExtends(i)
        \/ \E key \in Keys, folder \in Folders : CallRel(i, key, folder)
        \/ \E key \in Keys, folder \in Folders : CallAbs(i, key, folder)
        \/ \E key \in Keys, folders \in FolderLists : CallDir(i, key, folders)
        \/ \E key \in Keys, folder \in Folders : CallDirPath(i, key, folder)
        \/ \E prefix \in Prefixes, folders \in FoldersArgs : CallAlias(i, prefix, folders)
        \/ \E prefix \in PrefixArgs : CallContentSources(i, prefix)
        \/ \E folders \in ImportFolders : CallImportsDirs(i, folders)
        \/ \E options \in ComponentOptions : CallComponents(i, options)
        \/ \E aliases \in AliasMaps : CallViteResolveAlias(i, aliases)
        \/ \E callback \in Callbacks : CallObj(i, callback)
        \/ \E callback \in Callbacks : CallArr(i, callback)

SpecCallers == Init /\ [][NextCallers]_vars

----------------------------------------------------------------------------
(* The filters: chains of only() calls, and calls on the instances they make *)

\* filters of no key in each form, filters that name the same keys as a string
\* and as an array, a filter within another, a key named twice, an unknown key
ChainFilters ==
    { ArrayFilter(<< >>),
      TextFilter(<< >>),
      TextFilter(<<SPACE, TAB>>),
      ArrayFilter(<< S("site"), S("blog"), S("core") >>),
      ArrayFilter(<< S("blog"), S("site") >>),
      ArrayFilter(<< S("site"), S("site"), S("core") >>),
      TextFilter(<<SPACE, "site", SPACE, TAB, "blog">>),
      TextFilter(<<"blog", SPACE, "missing", TAB, SPACE>>) }

\* rel() and abs() on the instances of a chain: no folder, or one that climbs
ChainFolders == {Omitted, Given(<<DOT, DOT, SLASH, "assets", SLASH>>)}

NextFilters ==
    \/ Resume
    \/ \E i \in 1..Len(instances) :
        \/ \E filter \in ChainFilters : CallOnly(i, filter)
        \/ CallExtends(i)
        \/ \E key \in Keys, folder \in ChainFolders : CallRel(i, key, folder)
        \/ \E key \in Keys, folder \in ChainFolders : CallAbs(i, key, folder)
        \/ \E prefix \in Prefixes, folders \in FoldersArgs : CallAlias(i, prefix, folders)
        \/ \E folders \in ImportFolders : CallImportsDirs(i, folders)
        \/ \E options \in ComponentOptions : CallComponents(i, options)

SpecFilters == Init /\ [][NextFilters]_vars

----------------------------------------------------------------------------
(* What the claims speak of *)

Returned(op) == ret.op = op /\ ~ret.out.threw

Thrown(op) == ret.op = op /\ ret.out.threw

\* the error a call makes for a key: an Error whose message names the key, and no value
InvalidKeyError(out, key) ==
    /\ out.threw
    /\ DOMAIN out = {"threw", "message"}
    /\ out.message = <<"Invalid layer ", "\"">> \o key \o <<"\"">>

LayerKeys(i) == {instances[i].layers[n].key : n \in 1..Len(instances[i].layers)}

RECURSIVE FirstOccurrences(_)
\* the keys of a filter, each once, at the place of its first occurrence
FirstOccurrences(ks) ==
    IF ks = << >> THEN << >>
    ELSE LET before == FirstOccurrences(SubSeq(ks, 1, Len(ks) - 1))
         IN  IF Includes(before, ks[Len(ks)]) THEN before ELSE Append(before, ks[Len(ks)])

\* the relative path the instance holds for a key
PathOf(i, key) ==
    instances[i].layers[CHOOSE n \in 1..Len(instances[i].layers) :
                            instances[i].layers[n].key = key].val

\* C1: only(filter) with valid keys returns an instance whose mapping holds
\* exactly the filter's keys in the order of the filter, so that its extends()
\* is the sequence of those keys' paths in filter order.
C1_OnlyFollowsFilterOrder ==
    Returned("only") =>
        LET ks == FirstOccurrences(getKeys(ret.args[1]))
            made == ret.out.value
        IN  /\ ObjKeys(made.layers) = ks
            /\ extends(made).value = [n \in 1..Len(ks) |-> PathOf(ret.inst, ks[n])]

\* the outcome of a call of op with args on an instance
Apply(op, self, args) ==
    CASE op = "only" -> only(build, self, args[1])
      [] op = "extends" -> extends(self)
      [] op = "rel" -> rel(self, args[1], args[2])
      [] op = "abs" -> abs(self, args[1], args[2])
      [] op = "dir" -> dir(self, args[1], args[2])
      [] op = "dirPath" -> dirPath(self, args[1], args[2])
      [] op = "alias" -> alias(self, args[1], args[2])

\* C2: only() leaves the instance it is called on as it was, whether it
\* returns or throws: every instance is still as the call that made it returned
\* it, and a call on it gives what it gave then; and the instance only()
\* returns has the base directory of the instance it was called on.
C2_OnlyDoesNotMutate ==
    /\ \A j \in 1..Len(instances) : instances[j] = madeBy[j].made
    /\ \A j \in 2..Len(instances) :
         instances[j].baseDir = madeBy[madeBy[j].parent].made.baseDir
    /\ ret.op \notin {"idle", "useLayers"} =>
         ret.out = Apply(ret.op, madeBy[ret.inst].made, ret.args)

\* C2 witness: only() has returned twice on the root, dropping layers, and
\* then thrown on it
C2_Witness ==
    /\ Len(instances) = 3
    /\ madeBy[2].parent = 1
    /\ madeBy[3].parent = 1
    /\ Len(instances[2].layers) < Len(instances[1].layers)
    /\ Thrown("only")
    /\ ret.inst = 1

\* C3: rel, abs, dir and dirPath called with a key the mapping lacks throw the
\* invalid-key error naming that key, whatever the folders, and return nothing.
C3_InvalidKeyThrows ==
    (ret.op \in {"rel", "abs", "dir", "dirPath"} /\ ret.args[1] \notin LayerKeys(ret.inst))
        => InvalidKeyError(ret.out, ret.args[1])

\* C3 witness: dir() with an unknown key and no folder to map threw
C3_Witness ==
    /\ Thrown("dir")
    /\ ret.args[1] = S("invalid")
    /\ ret.args[2] = << >>
    /\ instances[ret.inst].layers # << >>

\* the first key of a filter that the instance lacks
InvalidAt(i, ks) == {n \in 1..Len(ks) : ks[n] \notin LayerKeys(i)}

FirstInvalidKey(i, ks) ==
    ks[CHOOSE n \in InvalidAt(i, ks) : \A m \in InvalidAt(i, ks) : n <= m]

\* C4: only(filter) with a key the mapping lacks throws the invalid-key error
\* naming the first such key in filter order, and makes no instance.
C4_OnlyThrowsFirstInvalid ==
    /\ (ret.op = "only" /\ InvalidAt(ret.inst, getKeys(ret.args[1])) # {})
          => InvalidKeyError(ret.out, FirstInvalidKey(ret.inst, getKeys(ret.args[1])))
    /\ \A j \in 2..Len(instances) : InvalidAt(madeBy[j].parent, madeBy[j].keys) = {}

\* C4 witness: a filter with two unknown keys, after one valid key, threw
C4_Witness ==
    /\ Thrown("only")
    /\ Cardinality(InvalidAt(ret.inst, getKeys(ret.args[1]))) >= 2
    /\ 1 \notin InvalidAt(ret.inst, getKeys(ret.args[1]))

\* the keys an instance lost to the filter it was made with
Dropped(j) == LayerKeys(madeBy[j].parent) \ Range(madeBy[j].keys)

\* C5: a key is judged against the mapping of the instance called: on an
\* instance made by only(), a key of the parent that the filter left out makes
\* rel, abs, dir, dirPath and only throw, and the parent still takes that key.
C5_ValidityIsPerInstance ==
    /\ (ret.op \in {"rel", "abs", "dir", "dirPath"} /\ ret.inst >= 2
            /\ ret.args[1] \in Dropped(ret.inst))
          => InvalidKeyError(ret.out, ret.args[1])
    /\ (ret.op = "only" /\ ret.inst >= 2
            /\ Range(getKeys(ret.args[1])) \cap Dropped(ret.inst) # {})
          => ret.out.threw
    /\ (ret.op \in {"rel", "abs", "dir", "dirPath"}
            /\ \E j \in 2..Len(instances) :
                  madeBy[j].parent = ret.inst /\ ret.args[1] \in Dropped(j))
          => ~ret.out.threw
    /\ (ret.op = "only"
            /\ Range(getKeys(ret.args[1])) \subseteq LayerKeys(ret.inst)
            /\ \E j \in 2..Len(instances) :
                  madeBy[j].parent = ret.inst
                  /\ Range(getKeys(ret.args[1])) \cap Dropped(j) # {})
          => ~ret.out.threw

\* C5 witness: abs() threw on a filtered instance for a key its parent holds
C5_Witness ==
    /\ Thrown("abs")
    /\ ret.inst >= 2
    /\ ret.args[1] \in Dropped(ret.inst)

\* C6: for a key the mapping holds and any folder, given or omitted,
\* abs(key, folder) is join(baseDir, rel(key, folder)).
C6_AbsIsBaseDirJoinedWithRel ==
    Returned("abs") =>
        LET self == instances[ret.inst]
            relative == rel(self, ret.args[1], ret.args[2])
        IN  /\ ~relative.threw
            /\ ret.out.value = join(<<self.baseDir, relative.value>>)

\* C6 witness: abs() returned for a folder that climbs out of a layer whose
\* path is not in normal form
C6_Witness ==
    /\ Returned("abs")
    /\ ret.args[2] = Given(<<DOT, DOT, SLASH, "assets", SLASH>>)
    /\ PathOf(ret.inst, ret.args[1]) # join(<<PathOf(ret.inst, ret.args[1])>>)

\* C7: extends() returns the relative paths of the mapping, one per layer, in
\* the order of the mapping and as they were given: not normalized, not
\* deduplicated.
C7_ExtendsIsValuesInOrder ==
    Returned("extends") =>
        LET layers == instances[ret.inst].layers
        IN  /\ Len(ret.out.value) = Len(layers)
            /\ \A n \in 1..Len(layers) : ret.out.value[n] = layers[n].val
            /\ ret.inst = 1 =>
                 \E p \in Projects :
                    /\ instances[1].baseDir = p.baseDir
                    /\ ret.out.value = [n \in 1..Len(p.layers) |-> p.layers[n].val]

\* C7 witness: extends() returned two equal paths that are not in normal form
C7_Witness ==
    /\ Returned("extends")
    /\ Len(ret.out.value) = 2
    /\ ret.out.value[1] = ret.out.value[2]
    /\ ret.out.value[1] # join(<<ret.out.value[1]>>)

\* the prefix alias() was called with
AliasPrefix == IF ret.args[1] = Omitted THEN <<"#">> ELSE ret.args[1][1]

\* C8: alias(prefix) without folders returns one entry per layer of the
\* mapping and no other: prefix + key is abs(key).
C8_AliasPerLayer ==
    (Returned("alias") /\ ret.args[2] = FoldersUndefined) =>
        LET self == instances[ret.inst]
        IN  /\ Len(ret.out.value) = Len(self.layers)
            /\ \A key \in LayerKeys(ret.inst) :
                 /\ ObjHas(ret.out.value, AliasPrefix \o key)
                 /\ ObjGet(ret.out.value, AliasPrefix \o key) = abs(self, key, Omitted).value

\* C8 witness: alias() without folders returned the aliases of three layers
C8_Witness ==
    /\ Returned("alias")
    /\ ret.args[2] = FoldersUndefined
    /\ Len(ret.out.value) = 3

\* the folders alias() was asked for
AliasFolders == IF ret.args[2].isArray THEN ret.args[2].items ELSE AUTO_IMPORTS

C10_OnlyThenAliasTargetsFirstKey ==
    (Returned("alias") /\ ret.args[2].truthy /\ ret.inst >= 2
        /\ madeBy[ret.inst].keys # << >>) =>
        LET parent == instances[madeBy[ret.inst].parent]
            k == madeBy[ret.inst].keys[1]
        IN  \A n \in 1..Len(AliasFolders) :
               /\ ObjHas(ret.out.value, AliasPrefix \o AliasFolders[n])
               /\ ObjGet(ret.out.value, AliasPrefix \o AliasFolders[n])
                    = abs(parent, k, Given(AliasFolders[n])).value

----------------------------------------------------------------------------
(* What the claims say of the generators *)

\* the prefix option contentSources() was called with
PrefixOption == OrDefault(ret.args[1], Auto)

\* the source descriptor the result holds for a key
SourceOf(key) == ObjGet(ret.out.value, key)

HasPrefix(key) == ObjHas(SourceOf(key), S("prefix"))

PrefixIs(key, text) ==
    /\ HasPrefix(key)
    /\ ObjGet(SourceOf(key), S("prefix")) = text

\* C11: contentSources('auto'), given or by default, leaves out the prefix of
\* the layer at index 0 of the instance's mapping and of no other, and gives
\* every other layer the prefix "/" + key; on an instance made by only(filter)
\* the layer left without is the one the filter names first.
C11_AutoSparesFirstLayer ==
    (Returned("contentSources") /\ PrefixOption = Auto) =>
        LET layers == instances[ret.inst].layers
        IN  /\ \A n \in 1..Len(layers) :
                 IF n = 1 THEN ~HasPrefix(layers[n].key)
                 ELSE PrefixIs(layers[n].key, <<SLASH>> \o layers[n].key)
            /\ (ret.inst >= 2 /\ madeBy[ret.inst].keys # << >>) =>
                 \A k \in Range(madeBy[ret.inst].keys) :
                     IF k = madeBy[ret.inst].keys[1] THEN ~HasPrefix(k)
                     ELSE PrefixIs(k, <<SLASH>> \o k)

\* C11 witness: contentSources() returned on the instance of only('site blog'),
\* made from a mapping that holds blog before site
C11_Witness ==
    /\ Returned("contentSources")
    /\ ret.args[1] = Omitted
    /\ ret.inst >= 2
    /\ madeBy[ret.inst].keys = << S("site"), S("blog") >>
    /\ ObjKeys(instances[madeBy[ret.inst].parent].layers) = << S("core"), S("blog"), S("site") >>
    /\ ~HasPrefix(S("site"))
    /\ PrefixIs(S("blog"), <<SLASH, "blog">>)

\* C12: contentSources(false) gives no layer a prefix, the first or any other:
\* each descriptor holds base and driver alone.
C12_FalseOmitsEveryPrefix ==
    (Returned("contentSources") /\ PrefixOption = PrefixFlag(FALSE)) =>
        \A key \in LayerKeys(ret.inst) :
            /\ ~HasPrefix(key)
            /\ ObjKeys(SourceOf(key)) = << S("base"), S("driver") >>

\* C12 witness: contentSources(false) returned the sources of three layers
C12_Witness ==
    /\ Returned("contentSources")
    /\ PrefixOption = PrefixFlag(FALSE)
    /\ Len(ret.out.value) = 3

\* C13: contentSources(prefixMap) returns, and gives every layer, the first
\* too, the prefix "/" + prefixMap[key]; for a key the map lacks the value
\* looked up is undefined, which the prefix spells out.
C13_MapPrefixesByLookup ==
    (ret.op = "contentSources" /\ PrefixOption.kind = "object") =>
        /\ ~ret.out.threw
        /\ \A key \in LayerKeys(ret.inst) :
             IF ObjHas(PrefixOption.map, key)
             THEN PrefixIs(key, <<SLASH>> \o ObjGet(PrefixOption.map, key))
             ELSE PrefixIs(key, <<SLASH, "undefined">>)

\* C13 witness: contentSources(map) returned on a mapping whose first layer
\* the map lacks and whose other layers it names
C13_Witness ==
    /\ Returned("contentSources")
    /\ PrefixOption.kind = "object"
    /\ Len(instances[ret.inst].layers) = 3
    /\ ~ObjHas(PrefixOption.map, instances[ret.inst].layers[1].key)
    /\ ObjHas(PrefixOption.map, instances[ret.inst].layers[2].key)

\* a truthy prefix option that is neither an object nor 'auto'
TruthyPlain(prefix) ==
    \/ prefix = PrefixFlag(TRUE)
    \/ prefix.kind = "string" /\ prefix.text # << >> /\ prefix # Auto

\* C14: contentSources(true), or with another truthy value that is neither an
\* object nor 'auto', gives every layer, the first too, the prefix "/" + key.
C14_TruthyPrefixesByKey ==
    (Returned("contentSources") /\ TruthyPlain(PrefixOption)) =>
        \A key \in LayerKeys(ret.inst) : PrefixIs(key, <<SLASH>> \o key)

\* C14 witness: contentSources('docs') returned the sources of several layers
C14_Witness ==
    /\ Returned("contentSources")
    /\ PrefixOption = PrefixText(S("docs"))
    /\ Len(ret.out.value) >= 2

\* C15: whatever the prefix option, contentSources() returns one entry per
\* layer key of the mapping, in its order, and no other; each has driver "fs"
\* and the base abs(key, 'content').
C15_OneFsSourcePerLayer ==
    ret.op = "contentSources" =>
        LET self == instances[ret.inst]
        IN  /\ ~ret.out.threw
            /\ ObjKeys(ret.out.value) = ObjKeys(self.layers)
            /\ \A key \in LayerKeys(ret.inst) :
                 /\ ObjGet(SourceOf(key), S("driver")) = S("fs")
                 /\ ObjGet(SourceOf(key), S("base"))
                      = abs(self, key, Given(S("content"))).value
                 /\ Range(ObjKeys(SourceOf(key))) \subseteq {S("prefix"), S("base"), S("driver")}

\* C15 witness: contentSources() returned for layers whose paths are not in
\* normal form, under a base directory that ends with a separator
C15_Witness ==
    /\ Returned("contentSources")
    /\ Len(ret.out.value) = 2
    /\ \A n \in 1..2 :
          instances[ret.inst].layers[n].val # join(<<instances[ret.inst].layers[n].val>>)

\* C16: for a key the mapping holds, dir(key, folders) returns a mapping whose
\* keys are the folder names asked for, each once and no other, and folder is
\* mapped to rel(key, folder); dirPath(key, folder) is rel(key, folder) for
\* every folder, given or omitted.
C16_DirIsRelPerFolder ==
    /\ Returned("dir") =>
         LET self == instances[ret.inst]
             folders == ret.args[2]
         IN  /\ Range(ObjKeys(ret.out.value)) = Range(folders)
             /\ Len(ret.out.value) = Cardinality(Range(folders))
             /\ \A folder \in Range(folders) :
                  ObjGet(ret.out.value, folder)
                     = rel(self, ret.args[1], Given(folder)).value
    /\ (ret.op = "dirPath" /\ ret.args[1] \in LayerKeys(ret.inst)) =>
         /\ ~ret.out.threw
         /\ ret.out = rel(instances[ret.inst], ret.args[1], ret.args[2])
         /\ ret.out.value
              = join(<<PathOf(ret.inst, ret.args[1]), OrDefault(ret.args[2], << >>)>>)

\* C16 witness: dirPath() returned the path of a folder in a layer, which is
\* not the path of the layer
C16_Witness ==
    /\ Returned("dirPath")
    /\ ret.args[2] # Omitted
    /\ ret.out.value # rel(instances[ret.inst], ret.args[1], Omitted).value

\* C16 witness of dir(): it returned two entries for three folders asked for
C16_DirWitness ==
    /\ Returned("dir")
    /\ Len(ret.args[2]) = 3
    /\ Len(ret.out.value) = 2

\* the folders importsDirs() was asked for
ImportsFolders ==
    IF ret.args[1] = Omitted
    THEN << S("components"), S("composables"), S("utils") >>
    ELSE ret.args[1][1]

\* C17: importsDirs(folders) is the cross product of layers and folders, layer
\* by layer: with n layers and m folders it has n * m elements, and the element
\* at position i * m + j is join(path of layer i, folder j), the layers in the
\* order of the mapping and the folders in the order given; without an
\* argument the folders are components, composables, utils.
C17_ImportsDirsLayerMajor ==
    Returned("importsDirs") =>
        LET layers == instances[ret.inst].layers
            n == Len(layers)
            m == Len(ImportsFolders)
        IN  /\ Len(ret.out.value) = n * m
            /\ \A i \in 0..(n - 1), j \in 0..(m - 1) :
                 ret.out.value[i * m + j + 1]
                    = join(<<layers[i + 1].val, ImportsFolders[j + 1]>>)

\* C17 witness: importsDirs() returned the nine paths of three layers
C17_Witness ==
    /\ Returned("importsDirs")
    /\ ret.args[1] = Omitted
    /\ Len(ret.out.value) = 9
    /\ ret.out.value[4] = <<"layers", SLASH, "blog", SLASH, "components">>

\* the options components() was called with
ComponentsOptions == OrDefault(ret.args[1], << >>)

\* the element components() is to return for a layer whose path is relPath
ComponentsElement(el, relPath, pathStands) ==
    LET path == <<"~", SLASH>> \o relPath \o <<SLASH, "components">>
    IN  IF ComponentsOptions = << >>
        THEN ~el.isObject /\ el.text = path
        ELSE /\ el.isObject
             /\ ObjHas(el.entries, S("path"))
             /\ pathStands => ObjGet(el.entries, S("path")) = path
             /\ \A e \in Range(ComponentsOptions) :
                  /\ ObjHas(el.entries, e.key)
                  /\ ObjGet(el.entries, e.key) = e.val
             /\ Range(ObjKeys(el.entries))
                  = {S("path")} \cup Range(ObjKeys(ComponentsOptions))

\* C18 as it was claimed: components(options) returns one element per layer in
\* the order of the mapping: the string "~/<path>/components" when the options
\* have no entry, else an object holding that path and every option entry,
\* <path> being what rel(key) returns for the layer.
C18_ComponentsOfRelativePath ==
    Returned("components") =>
        LET self == instances[ret.inst]
        IN  /\ Len(ret.out.value) = Len(self.layers)
            /\ \A n \in 1..Len(self.layers) :
                 ComponentsElement(ret.out.value[n],
                                   rel(self, self.layers[n].key, Omitted).value, TRUE)

\* C18, amended: components(options) returns one element per layer in the
\* order of the mapping: the string "~/<path>/components" when the options
\* have no entry, else an object holding every option entry and, unless the
\* options have a path of their own, that path; <path> is the layer's path as
\* the mapping holds it.
C18_ComponentsOfStoredPath ==
    Returned("components") =>
        LET self == instances[ret.inst]
        IN  /\ Len(ret.out.value) = Len(self.layers)
            /\ \A n \in 1..Len(self.layers) :
                 ComponentsElement(ret.out.value[n], self.layers[n].val,
                                   ~ObjHas(ComponentsOptions, S("path")))

\* C18 witness: components(options) returned objects for two layers whose
\* paths are not in normal form
C18_Witness ==
    /\ Returned("components")
    /\ ComponentsOptions # << >>
    /\ Len(ret.out.value) = 2
    /\ ret.out.value[1].isObject
    /\ instances[ret.inst].layers[1].val # join(<<instances[ret.inst].layers[1].val>>)

CollectsPerLayer(relPath(_)) ==
    LET self == instances[ret.inst]
        layers == self.layers
        callback == ret.args[1]
        passed(n) == Invocation(layers[n].key, relPath(n),
                                abs(self, layers[n].key, Omitted).value, n - 1)
        returned(n) == invoke(callback, passed(n).key, passed(n).rel,
                              passed(n).abs, passed(n).index)
    IN  /\ Len(ret.out.calls) = Len(layers)
        /\ \A n \in 1..Len(layers) : ret.out.calls[n] = passed(n)
        /\ Len(ret.out.value) = Len(layers)
        /\ \A n \in 1..Len(layers) :
             IF ret.op = "obj"
             THEN /\ ret.out.value[n].key = layers[n].key
                  /\ ret.out.value[n].val = returned(n)
             ELSE ret.out.value[n] = returned(n)

----------------------------------------------------------------------------
(* What the claims say of the callers *)

\* the methods of an instance
Methods ==
    {"extends", "dir", "dirPath", "importsDirs", "components", "contentSources",
     "alias", "viteResolveAlias", "rel", "abs", "only", "obj", "arr"}

\* the outcome of a call of any method with args on an instance
ApplyMethod(op, self, args) ==
    CASE op = "importsDirs" -> importsDirs(build, self, args[1])
      [] op = "components" -> components(build, self, args[1])
      [] op = "contentSources" -> contentSources(self, args[1])
      [] op = "viteResolveAlias" -> viteResolveAlias(self, args[1])
      [] op = "obj" -> obj(self, args[1])
      [] op = "arr" -> arr(self, args[1])
      [] OTHER -> Apply(op, self, args)

\* C21: no method of an instance changes the mapping or the base directory of
\* an instance: whatever calls were made before, by whichever caller, every
\* instance is as it was made, and a call returns what the same call returns
\* on the instance as it was made.
C21_NoMethodMutates ==
    /\ \A j \in 1..Len(instances) :
         /\ instances[j].layers = madeBy[j].made.layers
         /\ instances[j].baseDir = madeBy[j].made.baseDir
    /\ ret.op \in Methods =>
         ret.out = ApplyMethod(ret.op, madeBy[ret.inst].made, ret.args)

\* C21 witness: alias() with folders returned on the root after two instances
\* were made from it
C21_Witness ==
    /\ Returned("alias")
    /\ ret.args[2].truthy
    /\ ret.inst = 1
    /\ Len(instances) = 3
    /\ Len(instances[1].layers) = 3

\* the methods that take no layer key
KeylessMethods ==
    {"extends", "importsDirs", "components", "contentSources", "alias",
     "viteResolveAlias", "obj", "arr"}

\* C22: on the root and on every instance a chain of only() calls made, the
\* instance of no layers too, the methods that take no layer key return:
\* none of them throws.
C22_KeylessMethodsReturn ==
    ret.op \in KeylessMethods => ~ret.out.threw

\* C22 witness: alias() with folders returned on an instance of no layers
\* that only([]) made
C22_Witness ==
    /\ Returned("alias")
    /\ ret.args[2].truthy
    /\ ret.inst >= 2
    /\ madeBy[ret.inst].keys = << >>
    /\ instances[ret.inst].layers = << >>
    /\ ret.out.value = << >>

C24_LogConfigNeverThrows ==
    ret.op = "logConfig" =>
        /\ ~ret.out.threw
        /\ ret.out.value = ret.args[1]

\* C25: the layers getter returns the mapping the instance was made from: the
\* keys, paths and order of the mapping given to useLayers(), for the root
\* that of the caller and for an instance of only() that of only().
C25_LayersIsTheMappingGiven ==
    Returned("layers") =>
        /\ ret.out.value = madeBy[ret.inst].made.layers
        /\ ret.inst = 1 =>
             \E p \in Projects :
                 /\ madeBy[1].made.baseDir = p.baseDir
                 /\ Len(ret.out.value) = Len(p.layers)
                 /\ \A n \in 1..Len(p.layers) :
                      /\ ret.out.value[n].key = p.layers[n].key
                      /\ ret.out.value[n].val = p.layers[n].val
        /\ ret.inst >= 2 =>
             ret.out.value
                = only(build, madeBy[madeBy[ret.inst].parent].made,
                       ArrayFilter(madeBy[ret.inst].keys)).value.layers

\* C25 witness: the getter returned a mapping of two paths that are not in
\* normal form
C25_Witness ==
    /\ Returned("layers")
    /\ Len(ret.out.value) = 2
    /\ ret.out.value[1].val # join(<<ret.out.value[1].val>>)

----------------------------------------------------------------------------
(* What the claims say of the filters *)

MaxFilterKeys == 2

\* the keys a string filter may spell, and the sequences of them
SpelledKeys == {S("blog"), S("site"), S("missing")}

KeySeqs(lengths) == UNION {[1..n -> SpelledKeys] : n \in lengths}

\* the runs of whitespace before, between and after the keys
Runs == {<<SPACE>>, <<SPACE, TAB>>}

\* the keys joined by a run of whitespace, with whitespace or none around them
Spelled(ks, lead, run, trail) == lead \o JoinWith(ks, run) \o trail

\* the last call was only(text), text spelling the keys ks, and it did as
\* only(ks) does on the same instance
TextAsArray(lengths) ==
    (ret.op = "only" /\ ~ret.args[1].isArray) =>
        \A ks \in KeySeqs(lengths), run \in Runs,
           lead \in Runs \cup {<< >>}, trail \in Runs \cup {<< >>} :
            ret.args[1].text = Spelled(ks, lead, run, trail) =>
                ret.out = only(build, instances[ret.inst], ArrayFilter(ks))

\* C26 as it was claimed: for any sequence of keys, only() of the keys joined
\* by runs of whitespace, with or without whitespace before and after, does
\* as only() of the sequence does.
C26_AnyKeysTextAsArray == TextAsArray(0..MaxFilterKeys)

\* C26, amended: for any sequence of one key or more, each key not empty and
\* free of whitespace, only() of the keys joined by runs of whitespace, with
\* or without whitespace before and after, does as only() of the sequence does.
C26_SomeKeysTextAsArray == TextAsArray(1..MaxFilterKeys)

\* C26 witness: only() returned for a string that spells two keys, with
\* whitespace before them and a run of two characters between them
C26_Witness ==
    /\ Returned("only")
    /\ ~ret.args[1].isArray
    /\ ret.args[1].text = Spelled(<< S("site"), S("blog") >>, <<SPACE>>, <<SPACE, TAB>>, << >>)
    /\ Len(ret.out.value.layers) = 2

\* C27: an instance that a chain of only() calls made from the root holds a
\* part of the root's mapping: each of its keys is a key of the root with the
\* root's path, and rel(key, folder) and abs(key, folder) on it are what they
\* are on the root, for every key it holds.
C27_DerivedIsSubMapping ==
    /\ \A j \in 1..Len(instances) : \A n \in 1..Len(instances[j].layers) :
         /\ ObjHas(instances[1].layers, instances[j].layers[n].key)
         /\ ObjGet(instances[1].layers, instances[j].layers[n].key)
              = instances[j].layers[n].val
    /\ (ret.op \in {"rel", "abs"} /\ ret.args[1] \in LayerKeys(ret.inst)) =>
         /\ ~ret.out.threw
         /\ ret.out = Apply(ret.op, instances[1], ret.args)

\* C27 witness: abs() returned the path of a folder on an instance two only()
\* calls away from the root, which holds fewer layers than the root
C27_Witness ==
    /\ Returned("abs")
    /\ ret.args[2] # Omitted
    /\ ret.inst = 3
    /\ madeBy[3].parent = 2
    /\ madeBy[2].parent = 1
    /\ Len(instances[3].layers) = 2
    /\ Len(instances[1].layers) = 3

\* C28: only() composes by its last filter: on an instance that only(f) made,
\* only(g) with every key of g among those of f returns, and returns the
\* mapping (keys, paths, order) that only(g) returns on the instance only(f)
\* was called on; only(f) on the instance of only(f) returns its mapping.
C28_OnlyComposesByLastFilter ==
    (ret.op = "only" /\ ret.inst >= 2
        /\ Range(getKeys(ret.args[1])) \subseteq Range(madeBy[ret.inst].keys)) =>
        LET first == instances[madeBy[ret.inst].parent]
            direct == only(build, first, ret.args[1])
        IN  /\ ~ret.out.threw
            /\ ~direct.threw
            /\ ret.out.value.layers = direct.value.layers
            /\ getKeys(ret.args[1]) = madeBy[ret.inst].keys =>
                 ret.out.value.layers = instances[ret.inst].layers

\* C28 witness: only(g) returned on the instance of only(f), g naming two of
\* the three keys of f in another order than f and than the root
C28_Witness ==
    /\ Returned("only")
    /\ ret.inst >= 2
    /\ madeBy[ret.inst].keys = << S("site"), S("blog"), S("core") >>
    /\ getKeys(ret.args[1]) = << S("blog"), S("site") >>
    /\ ObjKeys(instances[madeBy[ret.inst].parent].layers) = << S("core"), S("blog"), S("site") >>

\* the string of no character or of whitespace alone
IsBlank(text) == \A n \in 1..Len(text) : text[n] \in Whitespace

\* an instance that only([]) made
MadeOfNoKey(j) == j >= 2 /\ madeBy[j].keys = << >>

\* C29: a filter of no key differs by its form: as a string, empty or of
\* whitespace alone, it makes only() throw the invalid-key error naming the
\* empty key (the mapping holding no empty key); as an empty array it makes
\* only() return an instance of no layers, on which extends(), importsDirs()
\* and components() return empty sequences and alias(), with or without
\* folders, an empty mapping.
C29_EmptyFilterByForm ==
    /\ (ret.op = "only" /\ ~ret.args[1].isArray /\ IsBlank(ret.args[1].text)
            /\ << >> \notin LayerKeys(ret.inst))
          => InvalidKeyError(ret.out, << >>)
    /\ (ret.op = "only" /\ ret.args[1].isArray /\ ret.args[1].keys = << >>)
          => /\ ~ret.out.threw
             /\ ret.out.value.layers = << >>
    /\ (ret.op \in {"extends", "importsDirs", "components", "alias"}
            /\ MadeOfNoKey(ret.inst))
          => /\ ~ret.out.threw
             /\ ret.out.value = << >>

\* C29 witness: only() threw for a string of whitespace on a root of three
\* layers from which only([]) had made an instance of no layers
C29_Witness ==
    /\ Thrown("only")
    /\ ret.args[1] = TextFilter(<<SPACE, TAB>>)
    /\ ret.inst = 1
    /\ Len(instances[1].layers) = 3
    /\ \E j \in 2..Len(instances) : MadeOfNoKey(j) /\ madeBy[j].parent = 1

\* C30: only(filter) with a valid key named more than once returns a mapping
\* that holds each key once, at the place of its first occurrence in the
\* filter, so that extends() of the result has as many elements as the filter
\* has distinct keys.
C30_RepeatedKeyHeldOnce ==
    (Returned("only") /\ Len(getKeys(ret.args[1])) > Cardinality(Range(getKeys(ret.args[1])))) =>
        LET ks == getKeys(ret.args[1])
            made == ret.out.value
        IN  /\ ObjKeys(made.layers) = FirstOccurrences(ks)
            /\ Len(extends(made).value) = Cardinality(Range(ks))

====
